---- MODULE Spec2Model ----
(***************************************************************************)
(* The quota-and-scheduling core of the news bot.                          *)
(*                                                                         *)
(*   SpecQuota  the rate_limits table (database.py) behind                 *)
(*              RateLimiter.check_rate_limit (rate_limiter.py), called by  *)
(*              several threads directly and through                       *)
(*              NewsProcessor.enhance_news / NewsBot.process_news.         *)
(*   SpecSched  the scheduled_posts table and NewsScheduler (scheduler.py):*)
(*              start/stop, the tick loop, auto_post_news, schedule_post   *)
(*              and cancel_scheduled_post.                                 *)
(*   SpecLife   the scheduler with stop() and a second start().            *)
(*   SpecErr    the scheduler with all its jobs and with exceptions.       *)
(*   SpecFault  the rate limiter with persistence failures.                *)
(*   SpecQuery  the rate limiter with RateLimiter.get_user_limits.         *)
(*                                                                         *)
(* Times are integers.  In SpecQuota one unit is a fraction of an hour; in *)
(* SpecSched one unit is half a second, so that SQLite's datetime(), which *)
(* drops the fraction of a second, is not the identity.                    *)
(***************************************************************************)
EXTENDS Integers, Sequences, FiniteSets, TLC

(* ---------------------------------------------------------------- bounds *)

\* config.MAX_REQUESTS_PER_HOUR (10) and config.MAX_REQUESTS_PER_DAY (50),
\* scaled down; the model keeps 1 <= hourly limit < daily limit.
MAX_REQUESTS_PER_HOUR == 2

MAX_REQUESTS_PER_DAY == 3

\* timedelta(hours=1) and timedelta(days=1) in clock units, scaled down.
HourLen == 1

DayLen == 4

\* The wall clock stops advancing here.
MaxTime == 3

\* check_rate_limit calls started in a run, over all actors.
MaxCalls == 4

Actors == {1, 2}

\* The LIMIT of auto_post_news's SELECT (5 in the source), scaled down.
BatchLimit == 2

\* Rows schedule_post may insert in a run.
MaxJobs == 3

\* The scheduler's wall clock, in half seconds, stops advancing here.
MaxNow == 1

\* The tick-loop threads a run may have: start() takes effect once for each.
Loops == {1, 2}

\* Rows schedule_post may insert, and times the trigger comes due, in a run
\* that starts the scheduler twice.
LifeJobs == 1

LifeFirings == 2

\* The scheduler's wall clock stops here in such a run.
\* Exceptions raised in a run.
MaxErrors == 1

\* The age in days at which _cleanup_database deletes (30 in the source),
\* scaled down.
CleanupDays == 1

\* A day in the half seconds of the scheduler's clock, scaled down.
DayTicks == 2

\* Days that pass, and check_rate_limit calls started, in a run that follows
\* the rows of both tables up to the weekly cleanup.
MaxDays == 2

CleanCalls == 1

\* Firings of the auto-post trigger that are counted in a run in which it
\* goes on firing for ever.
StarveFirings == 1

\* check_rate_limit calls started in a run that follows update_rate_limit and
\* cleanup_old_data statement by statement.
StoreCalls == 2

\* The jobs start() registers: auto_post_news and send_daily_report through
\* _run_async, _cleanup_database and _backup_database directly.
Kinds == {"auto_post", "report", "cleanup", "backup"}

\* Times the auto-post trigger comes due in a run.
MaxFirings == 2

Threads == {1, 2}

\* The user_id argument left at its default by a caller.
None == 0

\* datetime.now() is naive local time, SQLite's CURRENT_TIMESTAMP is UTC:
\* their difference is the zone offset of the process, fixed for a run.
\* Offsets of real zones are longer than an hour and shorter than a day.
TzSkew == HourLen + 1

TzOffsets == {0 - TzSkew, 0, TzSkew}

VARIABLES
    clock,        \* the wall clock, UTC
    tz,           \* datetime.now() - UTC
    rate_limits,  \* the rate_limits table: user_id -> row, for the rows present
    pc,           \* per thread: where it is
    actor,        \* per thread: the user_id of the call in progress
    via,          \* per thread: the entry point of the request in progress
    now_,         \* per thread: the local `now` of update_rate_limit
    checked,      \* per thread: the request in progress called check_rate_limit
    calls,        \* per actor: check_rate_limit calls returned        (history)
    lastResult,   \* per actor: what the last returned call returned   (history)
    granted,      \* per actor: calls that returned True                  (history)
    overlap       \* per actor: two of its calls were in progress at once (history)

quotaVars == <<clock, tz, rate_limits, pc, actor, via, now_, checked,
               calls, lastResult, granted, overlap>>

VARIABLES
    jnow,             \* the wall clock, in half seconds
    scheduled_posts,  \* the scheduled_posts table: a sequence of rows, id = index
    running,          \* NewsScheduler.running
    registered,       \* the auto-post job is in the schedule module's job list
    gen,              \* start() calls that took effect; the registered job's number
    due,              \* the registered job's should_run
    firings,          \* times the trigger came due                       (bound)
    loop,             \* per tick-loop thread: where _run_scheduler is
    handler,          \* per tick-loop thread: where its auto_post_news is
    firedGen,         \* per tick-loop thread: the job its handler was run for
    batch,            \* per tick-loop thread: the fetched ids not yet done
    result,           \* per tick-loop thread: result['message_id'] of the post
    nextMsg,          \* the message_id Telegram gives the next message
    cancelRet         \* ids for which cancel_scheduled_post returned True (history)

schedVars == <<jnow, scheduled_posts, running, registered, gen, due, firings,
               loop, handler, firedGen, batch, result, nextMsg, cancelRet>>

VARIABLES
    lim,      \* the extent of the run: its tick loops, rows, clock, firings, calls
    kind,     \* which of the registered jobs came due last
    runs,     \* handler runs started for that job since it came due
    errors,   \* exceptions raised in the run so far                 (history)
    limits,   \* what the last get_user_limits call returned        (history)
    failed,   \* ids of the jobs a dispatch of which has failed       (history)
    current_, \* per thread: what the SELECT of its update_rate_limit returned
    sent      \* ids of the jobs a dispatch of which has succeeded    (history)

runVars == <<lim, kind, runs, errors, limits, failed, current_, sent>>

vars == <<quotaVars, schedVars, runVars>>

(* ------------------------------------------------------------ the table *)

HasRow(a) == a \in DOMAIN rate_limits

\* datetime.now()
LocalNow == clock + tz

\* CURRENT_TIMESTAMP, the column default of last_hour_reset and last_day_reset
CURRENT_TIMESTAMP == clock

\* INSERT INTO rate_limits (user_id, hourly_count, daily_count) VALUES (?, 1, 1)
NewRow ==
    [hourly_count |-> 1, daily_count |-> 1,
     last_hour_reset |-> CURRENT_TIMESTAMP, last_day_reset |-> CURRENT_TIMESTAMP]

\* The hourly half, with the count held at the limit.
HourlyUpdate_capped(now, current) ==
    IF now - current.last_hour_reset > HourLen
    THEN [count |-> 1, reset |-> now]
    ELSE [count |-> IF current.hourly_count < MAX_REQUESTS_PER_HOUR
                    THEN current.hourly_count + 1 ELSE current.hourly_count,
          reset |-> current.last_hour_reset]

\* The hourly half of update_rate_limit's UPDATE, for `now` and the row read.
HourlyUpdate(now, current) ==
    IF now - current.last_hour_reset > HourLen
    THEN [count |-> 1, reset |-> now]
    ELSE [count |-> current.hourly_count + 1, reset |-> current.last_hour_reset]

\* The daily half, restarted with the hour window.
DailyUpdate_coupled(now, current) ==
    IF now - current.last_hour_reset > HourLen
    THEN [count |-> 1, reset |-> now]
    ELSE [count |-> current.daily_count + 1, reset |-> current.last_day_reset]

\* The daily half.
DailyUpdate(now, current) ==
    IF now - current.last_day_reset > DayLen
    THEN [count |-> 1, reset |-> now]
    ELSE [count |-> current.daily_count + 1, reset |-> current.last_day_reset]

\* The UPDATE, with both windows restarted at every call.
UpdatedRow_restart(now, current) ==
    [hourly_count |-> HourlyUpdate(now, current).count,
     daily_count |-> DailyUpdate(now, current).count,
     last_hour_reset |-> now,
     last_day_reset |-> now]

\* The UPDATE of update_rate_limit.
UpdatedRow(now, current) ==
    [hourly_count |-> HourlyUpdate(now, current).count,
     daily_count |-> DailyUpdate(now, current).count,
     last_hour_reset |-> HourlyUpdate(now, current).reset,
     last_day_reset |-> DailyUpdate(now, current).reset]

\* Database.check_rate_limit: the two flags, from the counts alone.
hourly_ok(a) ==
    IF HasRow(a) THEN rate_limits[a].hourly_count < MAX_REQUESTS_PER_HOUR ELSE TRUE

daily_ok(a) ==
    IF HasRow(a) THEN rate_limits[a].daily_count < MAX_REQUESTS_PER_DAY ELSE TRUE

\* Database.cleanup_old_data(days): the rate_limits rows it keeps.
cleanup_old_data(days) ==
    LET cutoff_date == LocalNow - days * DayLen
        kept == {a \in DOMAIN rate_limits :
                    ~(rate_limits[a].last_day_reset < cutoff_date)}
    IN IF kept = {} THEN <<>> ELSE [a \in kept |-> rate_limits[a]]

(* ---------------------------------------------------------------- Init *)

InitQuota ==
    /\ clock = 0
    /\ tz \in TzOffsets
    /\ rate_limits = <<>>
    /\ pc = [t \in Threads |-> "idle"]
    /\ actor = [t \in Threads |-> None]
    /\ via = [t \in Threads |-> "none"]
    /\ now_ = [t \in Threads |-> 0]
    /\ checked = [t \in Threads |-> FALSE]
    /\ calls = [a \in Actors |-> 0]
    /\ lastResult = [a \in Actors |-> TRUE]
    /\ granted = [a \in Actors |-> 0]
    /\ overlap = [a \in Actors |-> FALSE]

\* SQL NULL
NULL == 0 - 1

InitSched ==
    /\ jnow = 0
    /\ scheduled_posts = <<>>
    /\ running = FALSE
    /\ registered = FALSE
    /\ gen = 0
    /\ due = FALSE
    /\ firings = 0
    /\ loop = [l \in Loops |-> "none"]
    /\ handler = [l \in Loops |-> "none"]
    /\ firedGen = [l \in Loops |-> 0]
    /\ batch = [l \in Loops |-> <<>>]
    /\ result = [l \in Loops |-> NULL]
    /\ nextMsg = 1
    /\ cancelRet = {}

\* A run with one start() that takes effect, and only the auto-post job due.
SchedRun ==
    [loops |-> {1}, jobs |-> MaxJobs, now |-> MaxNow, firings |-> MaxFirings,
     kinds |-> {"auto_post"}, calls |-> MaxCalls]

\* A run in which stop() and a second start() may follow the first start().
LifeRun ==
    [loops |-> Loops, jobs |-> LifeJobs, now |-> 0, firings |-> LifeFirings,
     kinds |-> {"auto_post"}, calls |-> MaxCalls]

\* A run with one start() that takes effect, in which any of the registered
\* jobs comes due.
ErrRun ==
    [loops |-> {1}, jobs |-> LifeJobs, now |-> 0, firings |-> LifeFirings,
     kinds |-> Kinds, calls |-> MaxCalls]

\* A run with one start() that takes effect, in which the auto-post job and
\* the weekly cleanup come due while days pass.
CleanRun ==
    [loops |-> {1}, jobs |-> LifeJobs, now |-> 0, firings |-> LifeFirings,
     kinds |-> {"auto_post", "cleanup"}, calls |-> CleanCalls]

\* A run with one start() that takes effect and no stop(), in which the
\* auto-post trigger comes due again and again.
StarveRun ==
    [loops |-> {1}, jobs |-> MaxJobs, now |-> 0, firings |-> StarveFirings,
     kinds |-> {"auto_post"}, calls |-> MaxCalls]

\* A run with one start() that takes effect, in which the weekly cleanup comes
\* due while check_rate_limit is called.
StoreRun ==
    [loops |-> {1}, jobs |-> LifeJobs, now |-> 0, firings |-> LifeFirings,
     kinds |-> {"cleanup"}, calls |-> StoreCalls]

\* update_rate_limit of a thread has not executed its SELECT.
NoRow ==
    [hourly_count |-> 0, daily_count |-> 0, last_hour_reset |-> 0, last_day_reset |-> 0]

NotRead == [read |-> FALSE, found |-> FALSE, row |-> NoRow]

InitRun ==
    /\ kind = "auto_post"
    /\ runs = 0
    /\ errors = 0
    /\ limits = [hourly_remaining |-> NULL, daily_remaining |-> NULL]
    /\ failed = {}
    /\ current_ = [t \in Threads |-> NotRead]
    /\ sent = {}

Init == InitQuota /\ InitSched /\ InitRun /\ lim = SchedRun

(* ------------------------------------------------------------- actions *)

InCall(t, a) == pc[t] \in {"update", "commit"} /\ actor[t] = a

CallsOf(a) == calls[a] + Cardinality({t \in Threads : InCall(t, a)})

RECURSIVE Sum(_, _)
Sum(f, S) == IF S = {} THEN 0 ELSE LET x == CHOOSE y \in S : TRUE IN f[x] + Sum(f, S \ {x})

Started == Sum([a \in Actors |-> CallsOf(a)], Actors)

\* The table after a check that found a limit reached: check_rate_limit
\* returns False before it calls update_rate_limit.
DeniedRows_counted(a) == [rate_limits EXCEPT ![a].hourly_count = @ + 1]

DeniedRows(a) == rate_limits

\* A call of check_rate_limit returns r to its caller.
Returned(t, a, r) ==
    /\ calls' = [calls EXCEPT ![a] = @ + 1]
    /\ lastResult' = [lastResult EXCEPT ![a] = r]
    /\ granted' = [granted EXCEPT ![a] = IF r THEN @ + 1 ELSE @]

\* RateLimiter.check_rate_limit up to its first return or to the call of
\* update_rate_limit: one SELECT, then the two tests.
CheckRateLimit(t, a, entry) ==
    /\ Started < lim.calls
    /\ overlap' = [overlap EXCEPT ![a] = @ \/ (\E u \in Threads : InCall(u, a))]
    /\ IF hourly_ok(a) /\ daily_ok(a)
       THEN /\ pc' = [pc EXCEPT ![t] = "update"]
            /\ actor' = [actor EXCEPT ![t] = a]
            /\ via' = [via EXCEPT ![t] = entry]
            /\ checked' = [checked EXCEPT ![t] = TRUE]
            /\ UNCHANGED <<rate_limits, calls, lastResult, granted>>
       ELSE \* return False; enhance_news turns it into a failure result
            /\ rate_limits' = DeniedRows(a)
            /\ Returned(t, a, FALSE)
            /\ pc' = [pc EXCEPT ![t] = "idle"]
            /\ actor' = [actor EXCEPT ![t] = None]
            /\ via' = [via EXCEPT ![t] = "none"]
            /\ checked' = [checked EXCEPT ![t] = FALSE]
    /\ UNCHANGED <<clock, tz, now_, schedVars, runVars>>

\* A caller of the RateLimiter itself.
ApiCall(t, a) ==
    /\ pc[t] = "idle"
    /\ CheckRateLimit(t, a, "api")

\* update_rate_limit, line 213: now = datetime.now(), before the lock is taken.
UpdateBegin(t) ==
    /\ pc[t] = "update"
    /\ now_' = [now_ EXCEPT ![t] = LocalNow]
    /\ pc' = [pc EXCEPT ![t] = "commit"]
    /\ UNCHANGED <<clock, tz, rate_limits, actor, via, checked,
                   calls, lastResult, granted, overlap, schedVars, runVars>>

\* update_rate_limit under self.lock: SELECT, INSERT or UPDATE, commit; then
\* check_rate_limit returns True.
UpdateCommit(t) ==
    /\ pc[t] = "commit"
    /\ LET a == actor[t] IN
       /\ rate_limits' =
            IF HasRow(a)
            THEN [rate_limits EXCEPT ![a] = UpdatedRow(now_[t], rate_limits[a])]
            ELSE rate_limits @@ (a :> NewRow)
       /\ Returned(t, a, TRUE)
    /\ now_' = [now_ EXCEPT ![t] = 0]
    /\ IF via[t] = "bulk"
       THEN /\ pc' = [pc EXCEPT ![t] = "ai"]
            /\ UNCHANGED <<actor, via, checked>>
       ELSE /\ pc' = [pc EXCEPT ![t] = "idle"]
            /\ actor' = [actor EXCEPT ![t] = None]
            /\ via' = [via EXCEPT ![t] = "none"]
            /\ checked' = [checked EXCEPT ![t] = FALSE]
    /\ UNCHANGED <<clock, tz, overlap, schedVars, runVars>>

\* NewsProcessor.enhance_news up to the OpenAI call: the input test, then
\* `if user_id and not self.rate_limiter.check_rate_limit(user_id)`.
enhance_news(t, valid, user_id, entry) ==
    IF ~valid
    THEN \* ValueError, caught: the failure result, no AI call
         UNCHANGED vars
    ELSE IF user_id # None
    THEN CheckRateLimit(t, user_id, entry)
    ELSE /\ pc' = [pc EXCEPT ![t] = "ai"]
         /\ via' = [via EXCEPT ![t] = entry]
         /\ UNCHANGED <<clock, tz, rate_limits, actor, now_, checked,
                        calls, lastResult, granted, overlap, schedVars, runVars>>

\* NewsBot.process_news for user a: the authorization test, then
\* enhance_news(original_news), which leaves user_id at None.
process_news(t, a, authorized, valid) ==
    /\ pc[t] = "idle"
    /\ authorized
    /\ enhance_news(t, valid, None, "process_news")

\* NewsProcessor.bulk_enhance_news(news_list, user_id), one item of the list.
bulk_enhance_news(t, a, valid) ==
    /\ pc[t] = "idle"
    /\ enhance_news(t, valid, a, "bulk")

\* The OpenAI call returns or fails; process_news goes on to post_to_channel.
AiDone(t) ==
    /\ pc[t] = "ai"
    /\ pc' = [pc EXCEPT ![t] = IF via[t] = "process_news" THEN "post" ELSE "idle"]
    /\ actor' = [actor EXCEPT ![t] = None]
    /\ via' = [via EXCEPT ![t] = IF via[t] = "process_news" THEN @ ELSE "none"]
    /\ checked' = [checked EXCEPT ![t] = IF via[t] = "process_news" THEN @ ELSE FALSE]
    /\ UNCHANGED <<clock, tz, rate_limits, now_, calls, lastResult, granted, overlap, schedVars, runVars>>

\* post_to_channel returns; process_news is over.
PostDone(t) ==
    /\ pc[t] = "post"
    /\ pc' = [pc EXCEPT ![t] = "idle"]
    /\ via' = [via EXCEPT ![t] = "none"]
    /\ checked' = [checked EXCEPT ![t] = FALSE]
    /\ UNCHANGED <<clock, tz, rate_limits, actor, now_, calls, lastResult, granted, overlap, schedVars, runVars>>

Tick ==
    /\ clock < MaxTime
    /\ clock' = clock + 1
    /\ UNCHANGED <<tz, rate_limits, pc, actor, via, now_, checked,
                   calls, lastResult, granted, overlap, schedVars, runVars>>

NextQuota ==
    \/ \E t \in Threads, a \in Actors : ApiCall(t, a)
    \/ \E t \in Threads : UpdateBegin(t)
    \/ \E t \in Threads : UpdateCommit(t)
    \/ \E t \in Threads, a \in Actors, ok \in BOOLEAN, valid \in BOOLEAN :
          process_news(t, a, ok, valid)
    \/ \E t \in Threads, a \in Actors, valid \in BOOLEAN : bulk_enhance_news(t, a, valid)
    \/ \E t \in Threads : AiDone(t)
    \/ \E t \in Threads : PostDone(t)
    \/ Tick

SpecQuota == Init /\ [][NextQuota]_vars

(* ------------------------------------- persistence failures, the status query *)

\* `except Exception as e: ... return True` of RateLimiter.check_rate_limit
FailOpen_closed(t, a) == Returned(t, a, FALSE)

FailOpen(t, a) == Returned(t, a, TRUE)

\* check_rate_limit called from `entry`, and the SELECT of
\* Database.check_rate_limit raises.
CheckFails(t, a, entry) ==
    /\ pc[t] = "idle"
    /\ Started < lim.calls
    /\ errors < MaxErrors
    /\ errors' = errors + 1
    /\ FailOpen(t, a)
    /\ IF entry = "bulk"
       THEN \* enhance_news goes on to the AI call
            /\ pc' = [pc EXCEPT ![t] = "ai"]
            /\ actor' = [actor EXCEPT ![t] = a]
            /\ via' = [via EXCEPT ![t] = entry]
            /\ checked' = [checked EXCEPT ![t] = TRUE]
       ELSE UNCHANGED <<pc, actor, via, checked>>
    /\ UNCHANGED <<clock, tz, rate_limits, now_, overlap, schedVars,
                   lim, current_, sent, kind, runs, limits, failed>>

\* update_rate_limit raises under the lock: nothing is committed.
UpdateFails(t) ==
    /\ pc[t] = "commit"
    /\ errors < MaxErrors
    /\ errors' = errors + 1
    /\ FailOpen(t, actor[t])
    /\ now_' = [now_ EXCEPT ![t] = 0]
    /\ IF via[t] = "bulk"
       THEN /\ pc' = [pc EXCEPT ![t] = "ai"]
            /\ UNCHANGED <<actor, via, checked>>
       ELSE /\ pc' = [pc EXCEPT ![t] = "idle"]
            /\ actor' = [actor EXCEPT ![t] = None]
            /\ via' = [via EXCEPT ![t] = "none"]
            /\ checked' = [checked EXCEPT ![t] = FALSE]
    /\ UNCHANGED <<clock, tz, rate_limits, overlap, schedVars,
                   lim, current_, sent, kind, runs, limits, failed>>

Max(a, b) == IF a >= b THEN a ELSE b

\* What RateLimiter.get_user_limits returns for actor a: the remaining
\* requests, from the stored counts.
get_user_limits(a) ==
    IF ~HasRow(a)
    THEN [hourly_remaining |-> MAX_REQUESTS_PER_HOUR,
          daily_remaining |-> MAX_REQUESTS_PER_DAY]
    ELSE [hourly_remaining |-> Max(0, MAX_REQUESTS_PER_HOUR - rate_limits[a].hourly_count),
          daily_remaining |-> Max(0, MAX_REQUESTS_PER_DAY - rate_limits[a].daily_count)]

\* A call of RateLimiter.get_user_limits(a).
GetUserLimits(a) ==
    /\ limits' = get_user_limits(a)
    /\ UNCHANGED <<quotaVars, schedVars, lim, current_, sent, kind, runs, errors, failed>>

NextFault ==
    \/ NextQuota
    \/ \E t \in Threads, a \in Actors, entry \in {"api", "bulk"} : CheckFails(t, a, entry)
    \/ \E t \in Threads : UpdateFails(t)

\* Runs with persistence failures; stored starts and `now` on one clock.
InitFault == Init /\ tz = 0

SpecFault == InitFault /\ [][NextFault]_vars

NextQuery ==
    \/ NextQuota
    \/ \E a \in Actors : GetUserLimits(a)

\* Runs with status queries.
SpecQuery == InitFault /\ [][NextQuery]_vars

(* ------------------------------------------------- the scheduled_posts table *)

\* SQLite's datetime(): the time to whole seconds, the fraction dropped.
datetime(x) == x - (x % 2)

Ids == DOMAIN scheduled_posts

\* The due test without the status condition.
IsDue_anyStatus(row) ==
    /\ datetime(row.scheduled_time) <= datetime(jnow)

\* WHERE status = 'pending' AND datetime(scheduled_time) <= datetime('now')
IsDue(row) ==
    /\ row.status = "pending"
    /\ datetime(row.scheduled_time) <= datetime(jnow)

DueIds == {i \in Ids : IsDue(scheduled_posts[i])}

Min(a, b) == IF a <= b THEN a ELSE b

\* ORDER BY scheduled_time ASC: the orders SQLite may return the rows of S in
\* (rows with equal scheduled_time in either order).
OrderBy(S) ==
    {s \in [1 .. Cardinality(S) -> S] :
        /\ \A i, j \in 1 .. Cardinality(S) : i # j => s[i] # s[j]
        /\ \A i, j \in 1 .. Cardinality(S) :
              i < j => scheduled_posts[s[i]].scheduled_time
                          <= scheduled_posts[s[j]].scheduled_time}

\* LIMIT n
Limit(s, n) == SubSeq(s, 1, Min(n, Len(s)))

\* The SELECT of auto_post_news: what fetchall() may return.
FetchDue == {Limit(s, BatchLimit) : s \in OrderBy(DueIds)}

\* The UPDATE to 'posted' without the message_id.
MarkPosted_noRef(id, at, message_id) ==
    [scheduled_posts EXCEPT ![id] =
        [@ EXCEPT !.status = "posted", !.posted_at = at]]

\* UPDATE scheduled_posts SET status = 'posted', posted_at = ?, message_id = ?
\* WHERE id = ?
MarkPosted(id, at, message_id) ==
    [scheduled_posts EXCEPT ![id] =
        [@ EXCEPT !.status = "posted", !.posted_at = at, !.message_id = message_id]]

\* The cancelling UPDATE without its status condition.
CancelRows_anyStatus(id) ==
    IF id \in Ids
    THEN [scheduled_posts EXCEPT ![id].status = "cancelled"]
    ELSE scheduled_posts

\* UPDATE scheduled_posts SET status = 'cancelled' WHERE id = ? AND status = 'pending'
CancelRows(id) ==
    IF id \in Ids /\ scheduled_posts[id].status = "pending"
    THEN [scheduled_posts EXCEPT ![id].status = "cancelled"]
    ELSE scheduled_posts

\* conn.total_changes after that UPDATE on a fresh connection
total_changes(id) ==
    IF id \in Ids /\ scheduled_posts[id].status = "pending" THEN 1 ELSE 0

(* ------------------------------------------------------ NewsScheduler *)

\* The content arguments of schedule_post: a text, and the empty text.
Contents == {"news", ""}

\* ChannelManager._validate_content (a text of the model is never too long)
_validate_content(content) == content # ""

\* NewsScheduler.schedule_post: the INSERT, whatever the arguments; returns True.
schedule_post(content, scheduled_time) ==
    /\ Len(scheduled_posts) < lim.jobs
    /\ scheduled_posts' = Append(scheduled_posts,
          [content |-> content,
           status |-> "pending", scheduled_time |-> scheduled_time,
           posted_at |-> NULL, message_id |-> NULL])
    /\ UNCHANGED <<jnow, running, registered, gen, due, firings, loop, handler,
                   firedGen, batch, result, nextMsg, cancelRet,
                   quotaVars, runVars>>

\* NewsScheduler.cancel_scheduled_post(post_id); True is recorded in cancelRet.
cancel_scheduled_post(post_id) ==
    /\ scheduled_posts' = CancelRows(post_id)
    /\ cancelRet' = IF total_changes(post_id) > 0
                    THEN cancelRet \cup {post_id} ELSE cancelRet
    /\ UNCHANGED <<jnow, running, registered, gen, due, firings, loop, handler,
                   firedGen, batch, result, nextMsg,
                   quotaVars, runVars>>

\* NewsScheduler.start(), when not running: the flag, the registration of the
\* auto-post job with the schedule module, and a new tick-loop thread.
start ==
    /\ ~running
    /\ gen + 1 \in lim.loops
    /\ running' = TRUE
    /\ registered' = TRUE
    /\ gen' = gen + 1
    /\ due' = FALSE
    /\ loop' = [loop EXCEPT ![gen + 1] = "while"]
    /\ UNCHANGED <<jnow, scheduled_posts, firings, handler, firedGen, batch,
                   result, nextMsg, cancelRet,
                   quotaVars, runVars>>

\* NewsScheduler.stop(): the flag and schedule.clear(); the thread is not joined.
stop ==
    /\ running
    /\ running' = FALSE
    /\ registered' = FALSE
    /\ due' = FALSE
    /\ UNCHANGED <<jnow, scheduled_posts, gen, firings, loop, handler, firedGen,
                   batch, result, nextMsg, cancelRet,
                   quotaVars, runVars>>

\* The wall clock reaches a time of config.AUTO_POST_TIMES: the registered
\* job's should_run becomes true.
TriggerDue ==
    /\ registered
    /\ ~due
    /\ firings < lim.firings
    /\ due' = TRUE
    /\ firings' = firings + 1
    /\ kind' \in lim.kinds
    /\ runs' = 0
    /\ UNCHANGED <<jnow, scheduled_posts, running, registered, gen, loop, handler,
                   firedGen, batch, result, nextMsg, cancelRet,
                   quotaVars, lim, current_, sent, errors, limits, failed>>

\* _run_scheduler: `while self.running`.
LoopTest(l) ==
    /\ loop[l] = "while"
    /\ handler[l] = "none"
    /\ loop' = [loop EXCEPT ![l] = IF running THEN "run_pending" ELSE "exited"]
    /\ UNCHANGED <<jnow, scheduled_posts, running, registered, gen, due, firings,
                   handler, firedGen, batch, result, nextMsg, cancelRet,
                   quotaVars, runVars>>

\* schedule.run_pending(): the due job is run in
\* place, job.run() calling _run_async(auto_post_news), whose
\* run_until_complete returns only when the coroutine is over, or the job
\* function itself; with nothing due, run_pending returns.
RunPending(l) ==
    /\ loop[l] = "run_pending"
    /\ handler[l] = "none"
    /\ IF registered /\ due
       THEN /\ handler' = [handler EXCEPT ![l] = IF kind = "auto_post" THEN "fetch" ELSE kind]
            /\ firedGen' = [firedGen EXCEPT ![l] = gen]
            /\ runs' = runs + 1
            /\ UNCHANGED loop
       ELSE /\ loop' = [loop EXCEPT ![l] = "wait"]
            /\ UNCHANGED <<handler, firedGen, runs>>
    /\ UNCHANGED <<jnow, scheduled_posts, running, registered, gen, due, firings,
                   batch, result, nextMsg, cancelRet,
                   quotaVars, lim, current_, sent, kind, errors, limits, failed>>

\* threading.Event().wait(1)
Wait(l) ==
    /\ loop[l] = "wait"
    /\ handler[l] = "none"
    /\ loop' = [loop EXCEPT ![l] = "while"]
    /\ UNCHANGED <<jnow, scheduled_posts, running, registered, gen, due, firings,
                   handler, firedGen, batch, result, nextMsg, cancelRet,
                   quotaVars, runVars>>

\* One step of the tick loop of thread l itself.
TickStep(l) == LoopTest(l) \/ RunPending(l) \/ Wait(l)

\* The handler is over, and the job it ran stays due.
HandlerReturns_stillDue(l) ==
    /\ handler' = [handler EXCEPT ![l] = "none"]
    /\ loop' = [loop EXCEPT ![l] = "wait"]
    /\ due' = due

\* auto_post_news is over: _run_async returns, the schedule module sets the
\* job's next run (on the job object it ran, which stop() may have dropped from
\* the list since), and run_pending returns.
HandlerReturns(l) ==
    /\ handler' = [handler EXCEPT ![l] = "none"]
    /\ loop' = [loop EXCEPT ![l] = "wait"]
    /\ due' = IF registered /\ firedGen[l] = gen THEN FALSE ELSE due

\* auto_post_news: the SELECT of the due rows.
Fetch(l) ==
    /\ handler[l] = "fetch"
    /\ \E posts \in FetchDue :
          IF posts = <<>>
          THEN /\ HandlerReturns(l)
               /\ UNCHANGED batch
          ELSE /\ batch' = [batch EXCEPT ![l] = posts]
               /\ handler' = [handler EXCEPT ![l] = "post"]
               /\ UNCHANGED <<loop, due>>
    /\ UNCHANGED <<jnow, scheduled_posts, running, registered, gen, firings,
                   firedGen, result, nextMsg, cancelRet,
                   quotaVars, runVars>>

\* The table after a dispatch of job id that failed: the else branch and the
\* except of the for loop only log.
FailedRows_marked(id) == [scheduled_posts EXCEPT ![id].status = "failed"]

FailedRows(id) == scheduled_posts

\* The dispatch, going on to the next post without the sleep when it failed.
Post_noDelay(l, success) ==
    /\ handler[l] = "post"
    /\ success => _validate_content(scheduled_posts[Head(batch[l])].content)
    /\ IF success
       THEN /\ result' = [result EXCEPT ![l] = nextMsg]
            /\ nextMsg' = nextMsg + 1
            /\ handler' = [handler EXCEPT ![l] = "mark"]
            /\ UNCHANGED batch
       ELSE /\ handler' = [handler EXCEPT ![l] =
                            IF Tail(batch[l]) = <<>> THEN "sleep" ELSE "post"]
            /\ batch' = [batch EXCEPT ![l] = IF Tail(@) = <<>> THEN @ ELSE Tail(@)]
            /\ UNCHANGED <<result, nextMsg>>
    /\ failed' = IF success THEN failed ELSE failed \cup {Head(batch[l])}
    /\ sent' = IF success THEN sent \cup {Head(batch[l])} ELSE sent
    /\ scheduled_posts' = IF success THEN scheduled_posts ELSE FailedRows(Head(batch[l]))
    /\ UNCHANGED <<jnow, running, registered, gen, due, firings,
                   loop, firedGen, cancelRet,
                   quotaVars, lim, current_, kind, runs, errors, limits>>

\* await self.channel_manager.post_to_channel(post['content']) for the first
\* id of the batch: success with a new message_id, or failure; content that
\* _validate_content rejects always fails.
Post(l, success) ==
    /\ handler[l] = "post"
    /\ success => _validate_content(scheduled_posts[Head(batch[l])].content)
    /\ IF success
       THEN /\ result' = [result EXCEPT ![l] = nextMsg]
            /\ nextMsg' = nextMsg + 1
            /\ handler' = [handler EXCEPT ![l] = "mark"]
       ELSE /\ handler' = [handler EXCEPT ![l] = "sleep"]
            /\ UNCHANGED <<result, nextMsg>>
    /\ failed' = IF success THEN failed ELSE failed \cup {Head(batch[l])}
    /\ sent' = IF success THEN sent \cup {Head(batch[l])} ELSE sent
    /\ scheduled_posts' = IF success THEN scheduled_posts ELSE FailedRows(Head(batch[l]))
    /\ UNCHANGED <<jnow, running, registered, gen, due, firings,
                   loop, firedGen, batch, cancelRet,
                   quotaVars, lim, current_, kind, runs, errors, limits>>

\* The UPDATE to 'posted', without the test of result['success'].
Mark_untested(l) ==
    /\ handler[l] \in {"post", "mark"}
    /\ scheduled_posts' = MarkPosted(Head(batch[l]), jnow, result[l])
    /\ result' = [result EXCEPT ![l] = NULL]
    /\ handler' = [handler EXCEPT ![l] = "sleep"]
    /\ UNCHANGED <<jnow, running, registered, gen, due, firings, loop, firedGen,
                   batch, nextMsg, cancelRet,
                   quotaVars, runVars>>

\* if result['success']: the UPDATE to 'posted'.
Mark(l) ==
    /\ handler[l] = "mark"
    /\ scheduled_posts' = MarkPosted(Head(batch[l]), jnow, result[l])
    /\ result' = [result EXCEPT ![l] = NULL]
    /\ handler' = [handler EXCEPT ![l] = "sleep"]
    /\ UNCHANGED <<jnow, running, registered, gen, due, firings, loop, firedGen,
                   batch, nextMsg, cancelRet,
                   quotaVars, runVars>>

\* await asyncio.sleep(5), then the next post of the batch or the return.
Sleep(l) ==
    /\ handler[l] = "sleep"
    /\ batch' = [batch EXCEPT ![l] = Tail(@)]
    /\ IF Tail(batch[l]) = <<>>
       THEN HandlerReturns(l)
       ELSE /\ handler' = [handler EXCEPT ![l] = "post"]
            /\ UNCHANGED <<loop, due>>
    /\ UNCHANGED <<jnow, scheduled_posts, running, registered, gen, firings,
                   firedGen, result, nextMsg, cancelRet,
                   quotaVars, runVars>>

\* `except Exception as e: logger.error(...)` at the boundary of a handler
\* (_run_async, auto_post_news, send_daily_report, _cleanup_database,
\* _backup_database): the handler is over and returns normally.
Caught_propagating(l) ==
    /\ handler' = [handler EXCEPT ![l] = "none"]
    /\ loop' = [loop EXCEPT ![l] = "crashed"]
    /\ UNCHANGED due

Caught(l) == HandlerReturns(l)

\* The SELECT of auto_post_news raises: the outer except of auto_post_news.
FetchRaises(l) ==
    /\ handler[l] = "fetch"
    /\ errors < MaxErrors
    /\ errors' = errors + 1
    /\ Caught(l)
    /\ UNCHANGED <<jnow, scheduled_posts, running, registered, gen, firings,
                   firedGen, batch, result, nextMsg, cancelRet,
                   quotaVars, lim, current_, sent, kind, runs, limits, failed>>

\* The UPDATE to 'posted' raises: nothing is committed, and the except inside
\* the for loop goes on to the sleep.
MarkRaises(l) ==
    /\ handler[l] = "mark"
    /\ errors < MaxErrors
    /\ errors' = errors + 1
    /\ result' = [result EXCEPT ![l] = NULL]
    /\ handler' = [handler EXCEPT ![l] = "sleep"]
    /\ UNCHANGED <<jnow, scheduled_posts, running, registered, gen, due, firings,
                   loop, firedGen, batch, nextMsg, cancelRet,
                   quotaVars, lim, current_, sent, kind, runs, limits, failed>>

\* send_daily_report, _cleanup_database or _backup_database runs to its end,
\* or raises inside its try.
JobBody(l, raised) ==
    /\ handler[l] \in Kinds
    /\ raised => errors < MaxErrors
    /\ errors' = IF raised THEN errors + 1 ELSE errors
    /\ rate_limits' = IF handler[l] = "cleanup" /\ ~raised
                      THEN cleanup_old_data(CleanupDays) ELSE rate_limits
    /\ IF raised THEN Caught(l) ELSE HandlerReturns(l)
    /\ UNCHANGED <<jnow, scheduled_posts, running, registered, gen, firings,
                   firedGen, batch, result, nextMsg, cancelRet,
                   clock, tz, pc, actor, via, now_, checked, calls,
                   lastResult, granted,
                   overlap, lim, current_, sent, kind, runs, limits, failed>>

ClockTick ==
    /\ jnow < lim.now
    /\ jnow' = jnow + 1
    /\ UNCHANGED <<scheduled_posts, running, registered, gen, due, firings, loop,
                   handler, firedGen, batch, result, nextMsg, cancelRet,
                   quotaVars, runVars>>

\* scheduled_time arguments of schedule_post
SchedTimes == 0 .. lim.now + 1

NextSched ==
    \/ \E c \in Contents, tm \in SchedTimes : schedule_post(c, tm)
    \/ \E id \in 1 .. lim.jobs : cancel_scheduled_post(id)
    \/ start
    \/ stop
    \/ TriggerDue
    \/ \E l \in Loops : LoopTest(l)
    \/ \E l \in Loops : RunPending(l)
    \/ \E l \in Loops : Wait(l)
    \/ \E l \in Loops : Fetch(l)
    \/ \E l \in Loops, success \in BOOLEAN : Post(l, success)
    \/ \E l \in Loops : Mark(l)
    \/ \E l \in Loops : Sleep(l)
    \/ ClockTick

\* The scheduler's runs: the zone offset plays no part in them.
InitSchedRun == Init /\ tz = 0

SpecSched == InitSchedRun /\ [][NextSched]_vars

\* The scheduler's runs with stop() and a second start(); the wall clock
\* stands still.
NextLife ==
    \/ \E c \in Contents, tm \in SchedTimes : schedule_post(c, tm)
    \/ \E id \in 1 .. lim.jobs : cancel_scheduled_post(id)
    \/ start
    \/ stop
    \/ TriggerDue
    \/ \E l \in Loops : LoopTest(l)
    \/ \E l \in Loops : RunPending(l)
    \/ \E l \in Loops : Wait(l)
    \/ \E l \in Loops : Fetch(l)
    \/ \E l \in Loops, success \in BOOLEAN : Post(l, success)
    \/ \E l \in Loops : Mark(l)
    \/ \E l \in Loops : Sleep(l)

InitLife == InitQuota /\ InitSched /\ InitRun /\ tz = 0 /\ lim = LifeRun

SpecLife == InitLife /\ [][NextLife]_vars

\* The scheduler's runs with all four kinds of job and with exceptions.
NextErr ==
    \/ NextLife
    \/ \E l \in Loops : FetchRaises(l)
    \/ \E l \in Loops : MarkRaises(l)
    \/ \E l \in Loops, raised \in BOOLEAN : JobBody(l, raised)

InitErr == InitQuota /\ InitSched /\ InitRun /\ tz = 0 /\ lim = ErrRun

SpecErr == InitErr /\ [][NextErr]_vars

\* A day passes on the wall clock, which both tables' timestamps are read from.
DayPasses ==
    /\ clock < MaxDays * DayLen
    /\ clock' = clock + DayLen
    /\ jnow' = jnow + DayTicks
    /\ UNCHANGED <<tz, rate_limits, pc, actor, via, now_, checked, calls,
                   lastResult, granted, overlap,
                   scheduled_posts, running, registered, gen, due, firings, loop,
                   handler, firedGen, batch, result, nextMsg, cancelRet, runVars>>

\* The scheduler next to the rate limiter, over days: rows of both tables are
\* written, age, and meet _cleanup_database.
NextClean ==
    \/ \E c \in Contents, tm \in SchedTimes : schedule_post(c, tm)
    \/ \E id \in 1 .. lim.jobs : cancel_scheduled_post(id)
    \/ start
    \/ TriggerDue
    \/ \E l \in Loops : LoopTest(l)
    \/ \E l \in Loops : RunPending(l)
    \/ \E l \in Loops : Wait(l)
    \/ \E l \in Loops : Fetch(l)
    \/ \E l \in Loops, success \in BOOLEAN : Post(l, success)
    \/ \E l \in Loops : Mark(l)
    \/ \E l \in Loops : Sleep(l)
    \/ \E l \in Loops, raised \in BOOLEAN : JobBody(l, raised)
    \/ \E t \in Threads, a \in Actors : ApiCall(t, a)
    \/ \E t \in Threads : UpdateBegin(t)
    \/ \E t \in Threads : UpdateCommit(t)
    \/ DayPasses

InitClean == InitQuota /\ InitSched /\ InitRun /\ tz = 0 /\ lim = CleanRun

SpecClean == InitClean /\ [][NextClean]_vars

(* ------------------------------------------- the trigger firing for ever *)

\* The wall clock reaches a time of config.AUTO_POST_TIMES once more, the
\* firings of the run no longer being counted.
TriggerRecurs ==
    /\ registered
    /\ ~due
    /\ firings = lim.firings
    /\ due' = TRUE
    /\ kind' \in lim.kinds
    /\ runs' = 0
    /\ UNCHANGED <<jnow, scheduled_posts, running, registered, gen, firings, loop,
                   handler, firedGen, batch, result, nextMsg, cancelRet,
                   quotaVars, lim, current_, sent, errors, limits, failed>>

NextStarve ==
    \/ \E c \in Contents, tm \in SchedTimes : schedule_post(c, tm)
    \/ start
    \/ TriggerDue
    \/ TriggerRecurs
    \/ \E l \in Loops : LoopTest(l)
    \/ \E l \in Loops : RunPending(l)
    \/ \E l \in Loops : Wait(l)
    \/ \E l \in Loops : Fetch(l)
    \/ \E l \in Loops, success \in BOOLEAN : Post(l, success)
    \/ \E l \in Loops : Mark(l)
    \/ \E l \in Loops : Sleep(l)

InitStarve == InitQuota /\ InitSched /\ InitRun /\ tz = 0 /\ lim = StarveRun

\* The scheduler is started, the trigger keeps coming due, the tick-loop
\* thread and its handler keep running, and a dispatch that is attempted again
\* and again and can succeed does succeed.
FairStarve ==
    /\ WF_vars(start)
    /\ WF_vars(TriggerDue)
    /\ WF_vars(TriggerRecurs)
    /\ WF_vars(\E l \in Loops : LoopTest(l))
    /\ WF_vars(\E l \in Loops : RunPending(l))
    /\ WF_vars(\E l \in Loops : Wait(l))
    /\ WF_vars(\E l \in Loops : Fetch(l))
    /\ WF_vars(\E l \in Loops, success \in BOOLEAN : Post(l, success))
    /\ SF_vars(\E l \in Loops : Post(l, TRUE))
    /\ WF_vars(\E l \in Loops : Mark(l))
    /\ WF_vars(\E l \in Loops : Sleep(l))

SpecStarve == InitStarve /\ [][NextStarve]_vars /\ FairStarve

(* ------------------------------ the two writers of rate_limits, by statement *)

\* update_rate_limit inside `with self.lock` of the RateLimiter's Database:
\* the SELECT.  The lock is free when no other thread is between its SELECT
\* and its commit.
UpdateSelect(t) ==
    /\ pc[t] = "commit"
    /\ \A u \in Threads : pc[u] # "write"
    /\ current_' = [current_ EXCEPT ![t] =
          [read |-> TRUE, found |-> HasRow(actor[t]),
           row |-> IF HasRow(actor[t]) THEN rate_limits[actor[t]] ELSE NoRow]]
    /\ pc' = [pc EXCEPT ![t] = "write"]
    /\ UNCHANGED <<clock, tz, rate_limits, actor, via, now_, checked, calls,
                   lastResult, granted, overlap, schedVars,
                   lim, kind, runs, errors, limits, failed, sent>>

\* The rate_limits table after the INSERT or the UPDATE that follows the
\* SELECT: the values come from the row read; the UPDATE changes the row with
\* that user_id if there is one.
Written(a, now, cur) ==
    IF ~cur.found
    THEN rate_limits @@ (a :> NewRow)
    ELSE IF HasRow(a)
    THEN [rate_limits EXCEPT ![a] = UpdatedRow(now, cur.row)]
    ELSE rate_limits

\* The INSERT or UPDATE and the commit; the lock is released and
\* check_rate_limit returns True.
UpdateWrite(t) ==
    /\ pc[t] = "write"
    /\ rate_limits' = Written(actor[t], now_[t], current_[t])
    /\ Returned(t, actor[t], TRUE)
    /\ current_' = [current_ EXCEPT ![t] = NotRead]
    /\ now_' = [now_ EXCEPT ![t] = 0]
    /\ IF via[t] = "bulk"
       THEN /\ pc' = [pc EXCEPT ![t] = "ai"]
            /\ UNCHANGED <<actor, via, checked>>
       ELSE /\ pc' = [pc EXCEPT ![t] = "idle"]
            /\ actor' = [actor EXCEPT ![t] = None]
            /\ via' = [via EXCEPT ![t] = "none"]
            /\ checked' = [checked EXCEPT ![t] = FALSE]
    /\ UNCHANGED <<clock, tz, overlap, schedVars,
                   lim, kind, runs, errors, limits, failed, sent>>

\* cleanup_old_data inside `with self.lock` of the NewsScheduler's Database,
\* which no other caller uses: the connection is open, nothing is deleted yet.
CleanupBegin(l) ==
    /\ handler[l] = "cleanup"
    /\ handler' = [handler EXCEPT ![l] = "deleting"]
    /\ UNCHANGED <<jnow, scheduled_posts, running, registered, gen, due, firings,
                   loop, firedGen, batch, result, nextMsg, cancelRet,
                   quotaVars, runVars>>

\* The two DELETEs and the commit; _cleanup_database returns.
CleanupCommit(l) ==
    /\ handler[l] = "deleting"
    /\ rate_limits' = cleanup_old_data(CleanupDays)
    /\ HandlerReturns(l)
    /\ UNCHANGED <<jnow, scheduled_posts, running, registered, gen, firings,
                   firedGen, batch, result, nextMsg, cancelRet,
                   clock, tz, pc, actor, via, now_, checked, calls,
                   lastResult, granted,
                   overlap, runVars>>

NextStore ==
    \/ start
    \/ TriggerDue
    \/ \E l \in Loops : LoopTest(l)
    \/ \E l \in Loops : RunPending(l)
    \/ \E l \in Loops : Wait(l)
    \/ \E l \in Loops : CleanupBegin(l)
    \/ \E l \in Loops : CleanupCommit(l)
    \/ \E t \in Threads, a \in Actors : ApiCall(t, a)
    \/ \E t \in Threads : UpdateBegin(t)
    \/ \E t \in Threads : UpdateSelect(t)
    \/ \E t \in Threads : UpdateWrite(t)
    \/ DayPasses

InitStore == InitQuota /\ InitSched /\ InitRun /\ tz = 0 /\ lim = StoreRun

SpecStore == InitStore /\ [][NextStore]_vars

(* ------------------------------------------------------------------ claims *)

NoCallInProgress(a) == \A t \in Threads : ~InCall(t, a)

\* C1: for one actor on an empty table, while all its calls were sequential
\* and within one hour (the clock starts at 0), the first H calls of
\* check_rate_limit return True, the (H+1)th returns False, and hourly_count is
\* then still H.
C1_HourlyLimit ==
    \A a \in Actors :
        (/\ ~overlap[a]
         /\ NoCallInProgress(a)
         /\ clock <= HourLen
         /\ calls[a] >= 1)
        => /\ calls[a] <= MAX_REQUESTS_PER_HOUR => lastResult[a] = TRUE
           /\ calls[a] = MAX_REQUESTS_PER_HOUR + 1
                => /\ lastResult[a] = FALSE
                   /\ rate_limits[a].hourly_count = MAX_REQUESTS_PER_HOUR

\* C2: window independence.  A call for an actor whose hourly count is
\* exhausted, made more than an hour after the hour window's start, within the
\* day window and with the daily count below its limit, returns True; and an
\* update made across the hour boundary adds one to daily_count.  The claim
\* is taken where it is least in doubt: the actor's calls sequential, and the
\* zone offset 0, so that the stored starts and `now` are on one clock.
C2_WindowIndependence ==
    [][\A a \in Actors :
          /\ (/\ tz = 0
              /\ ~overlap[a]
              /\ HasRow(a)
              /\ NoCallInProgress(a)
              /\ rate_limits[a].hourly_count >= MAX_REQUESTS_PER_HOUR
              /\ LocalNow - rate_limits[a].last_hour_reset > HourLen
              /\ LocalNow - rate_limits[a].last_day_reset <= DayLen
              /\ rate_limits[a].daily_count < MAX_REQUESTS_PER_DAY
              /\ calls'[a] = calls[a] + 1)
             => lastResult'[a] = TRUE
          /\ \A t \in Threads :
                (/\ pc[t] = "commit" /\ pc'[t] # "commit"
                 /\ actor[t] = a
                 /\ HasRow(a)
                 /\ now_[t] - rate_limits[a].last_hour_reset > HourLen
                 /\ now_[t] - rate_limits[a].last_day_reset <= DayLen)
                => rate_limits'[a].daily_count = rate_limits[a].daily_count + 1
      ]_vars

\* C3: in every reachable state, whatever the interleaving of the calls,
\* hourly_count is at most MAX_REQUESTS_PER_HOUR and daily_count at most
\* MAX_REQUESTS_PER_DAY.
C3_CountsWithinLimits ==
    \A a \in DOMAIN rate_limits :
        /\ rate_limits[a].hourly_count <= MAX_REQUESTS_PER_HOUR
        /\ rate_limits[a].daily_count <= MAX_REQUESTS_PER_DAY

\* C4: in every execution of process_news, check_rate_limit has been called
\* for the request before the AI call and the channel post start.
C4_QuotaBeforeWork ==
    \A t \in Threads :
        (via[t] = "process_news" /\ pc[t] \in {"ai", "post"}) => checked[t]

\* C8: a step in which a call of check_rate_limit returns False leaves the
\* whole rate_limits table as it was: the actor's counts and window starts,
\* and every other actor's row.
C8_DeniedNoMutation ==
    [][\A a \in Actors :
          (calls'[a] = calls[a] + 1 /\ lastResult'[a] = FALSE)
          => rate_limits' = rate_limits
      ]_vars

\* A call of one actor has been denied while another actor has a row.
C8_Witness ==
    \E a, b \in Actors :
        /\ calls[a] >= 1 /\ lastResult[a] = FALSE /\ NoCallInProgress(a)
        /\ ~(hourly_ok(a) /\ daily_ok(a))
        /\ b # a
        /\ HasRow(b)

\* C9: defensive reset.  An update whose `now` is earlier than the stored
\* start of a window restarts that window: its count becomes 1 and its start
\* becomes `now`.
C9_DefensiveReset ==
    [][\A t \in Threads :
          (pc[t] = "commit" /\ pc'[t] # "commit" /\ HasRow(actor[t]))
          => LET a == actor[t] IN
             /\ now_[t] < rate_limits[a].last_hour_reset
                  => /\ rate_limits'[a].hourly_count = 1
                     /\ rate_limits'[a].last_hour_reset = now_[t]
             /\ now_[t] < rate_limits[a].last_day_reset
                  => /\ rate_limits'[a].daily_count = 1
                     /\ rate_limits'[a].last_day_reset = now_[t]
      ]_vars

\* C5: once a job's status is 'posted' or 'cancelled', no step changes its
\* status, posted_at or message_id.
C5_TerminalIsFinal ==
    [][\A id \in DOMAIN scheduled_posts :
          scheduled_posts[id].status \in {"posted", "cancelled"}
          => scheduled_posts'[id] = scheduled_posts[id]
      ]_vars

\* C6: after cancel_scheduled_post(id) has returned True, no post_to_channel
\* of that job is started.
C6_NoDispatchAfterCancel ==
    [][\A l \in Loops :
          (handler[l] = "post" /\ handler'[l] # "post")
          => Head(batch[l]) \notin cancelRet
      ]_vars

\* C7: dispatch decoupling.  While a handler fired by a tick loop is running,
\* that tick loop can take its next step.
C7_DispatchDecoupled ==
    \A l \in Loops : handler[l] # "none" => ENABLED TickStep(l)

Ascending(b) ==
    \A i, j \in 1 .. Len(b) :
        i < j => scheduled_posts[b[i]].scheduled_time
                    <= scheduled_posts[b[j]].scheduled_time

\* The step of thread l in which its SELECT returns.
FetchReturns(l) == handler[l] = "fetch" /\ handler'[l] # "fetch"

\* C10 as stated: the fetch returns no job whose scheduled_time is after now
\* or whose status is not 'pending', in ascending scheduled_time order, and at
\* most the batch limit.
C10_FetchDue_AsStated ==
    [][\A l \in Loops :
          FetchReturns(l)
          => /\ \A i \in 1 .. Len(batch'[l]) :
                   /\ scheduled_posts[batch'[l][i]].status = "pending"
                   /\ scheduled_posts[batch'[l][i]].scheduled_time <= jnow
             /\ Ascending(batch'[l])
             /\ Len(batch'[l]) <= BatchLimit
      ]_vars

\* C10, amended: the fetch returns no job whose scheduled_time is a whole
\* second or more after now (both times are compared with the fraction of a
\* second dropped) or whose status is not 'pending', in ascending
\* scheduled_time order, and at most the batch limit.
C10_FetchDue ==
    [][\A l \in Loops :
          FetchReturns(l)
          => /\ \A i \in 1 .. Len(batch'[l]) :
                   /\ scheduled_posts[batch'[l][i]].status = "pending"
                   /\ scheduled_posts[batch'[l][i]].scheduled_time < datetime(jnow) + 2
             /\ Ascending(batch'[l])
             /\ Len(batch'[l]) <= BatchLimit
      ]_vars

\* A fetch has returned a full batch with more rows due than the limit.
C10_Witness ==
    \E l \in Loops :
        /\ handler[l] = "post"
        /\ Len(batch[l]) = BatchLimit
        /\ Cardinality(DueIds) > BatchLimit
        /\ \A i \in 1 .. Len(batch[l]) : batch[l][i] \in DueIds

\* The step in which the handler of thread l executes its UPDATE to 'posted'.
MarkStep(l) == handler[l] = "mark" /\ handler'[l] = "sleep" /\ errors' = errors

\* C11: MarkPosted is idempotent.  The posted-status update of auto_post_news
\* applied to a job that is already 'posted' changes nothing: the job keeps
\* its message_id and posted_at.
C11_MarkPostedIdempotent ==
    [][\A l \in Loops :
          (MarkStep(l) /\ scheduled_posts[Head(batch[l])].status = "posted")
          => scheduled_posts'[Head(batch[l])] = scheduled_posts[Head(batch[l])]
      ]_vars

\* C12: cancel_scheduled_post(id) on a 'pending' job makes it 'cancelled',
\* touches nothing else and returns True; on a job that is posted, cancelled
\* or not in the table it changes nothing and returns False.
C12_CancelContract ==
    \A id \in 1 .. lim.jobs :
        /\ ENABLED cancel_scheduled_post(id)
        /\ IF id \in Ids /\ scheduled_posts[id].status = "pending"
           THEN ~ENABLED (/\ cancel_scheduled_post(id)
                          /\ ~(/\ scheduled_posts' =
                                    [scheduled_posts EXCEPT ![id].status = "cancelled"]
                               /\ cancelRet' = cancelRet \cup {id}))
           ELSE ~ENABLED (/\ cancel_scheduled_post(id)
                          /\ ~(/\ scheduled_posts' = scheduled_posts
                               /\ cancelRet' = cancelRet))

\* A cancel has returned True for a job that is now 'cancelled', next to a
\* posted job and an id still unused, on which a cancel changes nothing.
C12_Witness ==
    /\ \E id \in cancelRet : scheduled_posts[id].status = "cancelled"
    /\ \E id \in Ids : scheduled_posts[id].status = "posted"
    /\ Len(scheduled_posts) < lim.jobs

\* C13: a trigger registered for a fixed daily time fires its handler at most
\* once for each time it comes due.
C13_OncePerDay == runs <= 1

\* C14: failure isolation.  No exception raised inside a trigger handler ends
\* the tick loop: no tick-loop thread dies of one, and after a failure a
\* thread whose handler is over can take its next tick step.
C14_FailureIsolation ==
    \A l \in Loops :
        /\ loop[l] # "crashed"
        /\ (errors > 0 /\ loop[l] \notin {"none", "exited"} /\ handler[l] = "none")
              => ENABLED TickStep(l)

\* After an exception in the handler of the first firing, the only tick loop
\* of the run has started the handler of the second firing.
C14_Witness ==
    /\ gen = 1
    /\ errors > 0
    /\ firings = 2
    /\ runs = 1
    /\ handler[1] \in {"fetch"} \cup Kinds

\* C15: stop() waits for the tick loop.  Once stop() has returned (and before
\* any later start()), every tick-loop thread whose handler is not in flight
\* has exited, and none evaluates a further tick.
C15_StopWaits ==
    (~running /\ gen >= 1)
    => \A l \in 1 .. gen :
          /\ handler[l] = "none" => loop[l] = "exited"
          /\ ~ENABLED RunPending(l)

\* C20: validation at enqueue.  schedule_post with content that
\* _validate_content rejects persists no row: no row of the table ever has
\* such content.
C20_ValidatedAtEnqueue ==
    \A id \in Ids : _validate_content(scheduled_posts[id].content)

\* The ids of a batch
Fetched(b) == {b[i] : i \in 1 .. Len(b)}

\* A pending job whose scheduled_time is in the past
PastPending(id) ==
    /\ scheduled_posts[id].status = "pending"
    /\ scheduled_posts[id].scheduled_time < jnow

\* The posted-status update after a successful dispatch gives the job status
\* 'posted' and a message_id, and no fetch returns a posted job.
PostedForGood ==
    \A l \in Loops :
        /\ MarkStep(l)
             => /\ scheduled_posts'[Head(batch[l])].status = "posted"
                /\ scheduled_posts'[Head(batch[l])].message_id # NULL
        /\ FetchReturns(l)
             => \A id \in Fetched(batch'[l]) : scheduled_posts[id].status # "posted"

\* C16 as stated: every pending job whose scheduled_time is in the past is
\* fetched by the next auto_post_news invocation; on a successful dispatch it
\* becomes 'posted' with a message_id, and no later fetch returns it.
C16_EndToEnd_AsStated ==
    [][/\ \A l \in Loops :
             FetchReturns(l)
             => \A id \in Ids : PastPending(id) => id \in Fetched(batch'[l])
       /\ PostedForGood
      ]_vars

\* C16, amended: a pending job whose scheduled_time is in the past is fetched
\* by the next auto_post_news invocation unless as many pending due jobs as
\* the batch limit, none scheduled later than it, are fetched instead; on a
\* successful dispatch it becomes 'posted' with a message_id, and no later fetch
\* returns it.
C16_EndToEnd ==
    [][/\ \A l \in Loops :
             FetchReturns(l)
             => \A id \in Ids :
                   (PastPending(id) /\ id \notin Fetched(batch'[l]))
                   => /\ Len(batch'[l]) = BatchLimit
                      /\ \A other \in Fetched(batch'[l]) :
                            scheduled_posts[other].scheduled_time
                               <= scheduled_posts[id].scheduled_time
       /\ PostedForGood
      ]_vars

\* A job whose scheduled_time is in the past has been posted, with a
\* message_id, and the handler of a later firing has fetched other jobs.
C16_Witness ==
    \E l \in Loops, id \in Ids :
        /\ scheduled_posts[id].status = "posted"
        /\ scheduled_posts[id].message_id # NULL
        /\ scheduled_posts[id].scheduled_time < jnow
        /\ firings = 2
        /\ handler[l] = "post"
        /\ id \notin Fetched(batch[l])

\* A dispatch of the handler of thread l fails.
DispatchFails(l) == handler[l] = "post" /\ handler'[l] = "sleep"

\* A failed dispatch leaves the whole table as it was, and the handler goes
\* on with the rest of its batch.
FailureSkipsJob ==
    \A l \in Loops :
        /\ DispatchFails(l)
             => /\ scheduled_posts' = scheduled_posts
                /\ batch'[l] = batch[l]
        /\ (handler[l] = "sleep" /\ handler'[l] # "sleep")
             => /\ batch'[l] = Tail(batch[l])
                /\ Tail(batch[l]) # <<>> => handler'[l] = "post"

\* C17 as stated: a failed dispatch leaves the job as it was and the handler
\* goes on with the batch; a job whose dispatch has failed is fetched again at
\* a later firing while it is pending and due.
C17_FailureRetried_AsStated ==
    [][/\ FailureSkipsJob
       /\ \A l \in Loops :
             FetchReturns(l)
             => \A id \in failed :
                   IsDue(scheduled_posts[id]) => id \in Fetched(batch'[l])
      ]_vars

\* C17, amended: a failed dispatch leaves the job as it was and the handler
\* goes on with the batch; a job whose dispatch has failed is fetched again at
\* a later firing while it is pending and due, unless as many pending due jobs
\* as the batch limit, none scheduled later than it, are fetched instead.
C17_FailureRetried ==
    [][/\ FailureSkipsJob
       /\ \A l \in Loops :
             FetchReturns(l)
             => \A id \in failed :
                   (IsDue(scheduled_posts[id]) /\ id \notin Fetched(batch'[l]))
                   => /\ Len(batch'[l]) = BatchLimit
                      /\ \A other \in Fetched(batch'[l]) :
                            scheduled_posts[other].scheduled_time
                               <= scheduled_posts[id].scheduled_time
      ]_vars

\* A job whose dispatch failed, still pending, is first of the batch of a
\* later firing's handler, which has another job to go on with.
C17_Witness ==
    \E l \in Loops :
        /\ handler[l] = "post"
        /\ Head(batch[l]) \in failed
        /\ scheduled_posts[Head(batch[l])].status = "pending"
        /\ Len(batch[l]) = BatchLimit

\* C18: fail-open.  When the store read or the store write fails during
\* RateLimiter.check_rate_limit, the call returns to its caller, with True,
\* and the table is as it was.
C18_FailOpen ==
    [][errors' = errors + 1
       => \E a \in Actors :
             /\ calls'[a] = calls[a] + 1
             /\ lastResult'[a] = TRUE
             /\ rate_limits' = rate_limits
      ]_vars

\* A call for an actor whose hourly count is exhausted has returned True
\* because the store failed.
C18_Witness ==
    \E a \in Actors :
        /\ errors > 0
        /\ HasRow(a)
        /\ ~hourly_ok(a)
        /\ NoCallInProgress(a)
        /\ ~overlap[a]
        /\ calls[a] = MAX_REQUESTS_PER_HOUR + 1
        /\ lastResult[a] = TRUE

\* The hour window of actor a has elapsed at `now`.
HourElapsed(a) == HasRow(a) /\ LocalNow - rate_limits[a].last_hour_reset > HourLen

DayElapsed(a) == HasRow(a) /\ LocalNow - rate_limits[a].last_day_reset > DayLen

\* C19: get_user_limits applies the elapsed-window check: for an actor whose
\* hour (day) window has elapsed it reports the full hourly (daily) limit as
\* remaining; and it changes no stored counter.
C19_StatusQuery ==
    \A a \in Actors :
        /\ ENABLED GetUserLimits(a)
        /\ ~ENABLED (GetUserLimits(a) /\ rate_limits' # rate_limits)
        /\ HourElapsed(a)
             => ~ENABLED (/\ GetUserLimits(a)
                          /\ limits'.hourly_remaining # MAX_REQUESTS_PER_HOUR)
        /\ DayElapsed(a)
             => ~ENABLED (/\ GetUserLimits(a)
                          /\ limits'.daily_remaining # MAX_REQUESTS_PER_DAY)

\* cutoff_date of cleanup_old_data(days), on the clock of the rate_limits
\* table and in the half seconds of the scheduled_posts table.
CutoffDate(days) == LocalNow - days * DayLen

JobCutoff(days) == jnow - days * DayTicks

\* The step in which _cleanup_database, run by thread l, returns normally.
CleanupStep(l) == handler[l] = "cleanup" /\ handler'[l] = "none" /\ errors' = errors

\* A posted or cancelled job all of whose timestamps are before the cutoff.
OldTerminal(row, cutoff) ==
    /\ row.status \in {"posted", "cancelled"}
    /\ row.scheduled_time < cutoff
    /\ row.posted_at < cutoff

\* C21: after _cleanup_database has run, no rate_limits row whose
\* last_day_reset is before the retention cutoff remains, no 'posted' or
\* 'cancelled' scheduled job older than the cutoff remains, and every
\* 'pending' job is still in the table as it was.
C21_CleanupPurges ==
    [][\A l \in Loops :
          CleanupStep(l)
          => /\ \A a \in DOMAIN rate_limits' :
                   ~(rate_limits'[a].last_day_reset < CutoffDate(CleanupDays))
             /\ \A id \in DOMAIN scheduled_posts' :
                   ~OldTerminal(scheduled_posts'[id], JobCutoff(CleanupDays))
             /\ \A id \in Ids :
                   scheduled_posts[id].status = "pending"
                   => /\ id \in DOMAIN scheduled_posts'
                      /\ scheduled_posts'[id] = scheduled_posts[id]
      ]_vars

\* The operations on the rate_limits table that are between the first
\* statement and the commit of their `with self.lock` section.
Writers ==
    Cardinality({t \in Threads : pc[t] = "write"})
      + Cardinality({l \in Loops : handler[l] = "deleting"})

\* C22: writes to the rate_limits table are serialized: at no time are two of
\* update_rate_limit and cleanup_old_data inside their read-then-write
\* sections together.
C22_WritesSerialized == Writers <= 1

\* The step in which update_rate_limit of thread t commits (its call was
\* allowed, and returns True).
CommitStep(t) == pc[t] = "commit" /\ pc'[t] # "commit" /\ errors' = errors

\* C23: on every allowed call update_rate_limit treats the two windows
\* independently: a window whose start is more than its length before `now`
\* gets start `now` and count 1, a window that has not elapsed keeps its start
\* and gets count + 1; a missing row is created with both counts 1.
C23_IndependentWindows ==
    [][\A t \in Threads :
          CommitStep(t)
          => LET a == actor[t]
                 old == rate_limits[a]
                 new == rate_limits'[a]
             IN IF ~HasRow(a)
                THEN new.hourly_count = 1 /\ new.daily_count = 1
                ELSE /\ IF now_[t] - old.last_hour_reset > HourLen
                        THEN new.last_hour_reset = now_[t] /\ new.hourly_count = 1
                        ELSE /\ new.last_hour_reset = old.last_hour_reset
                             /\ new.hourly_count = old.hourly_count + 1
                     /\ IF now_[t] - old.last_day_reset > DayLen
                        THEN new.last_day_reset = now_[t] /\ new.daily_count = 1
                        ELSE /\ new.last_day_reset = old.last_day_reset
                             /\ new.daily_count = old.daily_count + 1
      ]_vars

\* An actor's second call crossed the hour boundary within the day: the hour
\* window was restarted and the daily count went on to 2.
C23_Witness ==
    \E a \in Actors :
        /\ tz = 0
        /\ HasRow(a)
        /\ calls[a] = 2
        /\ NoCallInProgress(a)
        /\ rate_limits[a].hourly_count = 1
        /\ rate_limits[a].last_hour_reset > rate_limits[a].last_day_reset
        /\ rate_limits[a].daily_count = 2

\* C24: no lost updates.  With the stored starts and `now` on one clock, the
\* day window of a run never elapses and the hour window does not elapse
\* within the first hour: whatever the interleaving of an actor's calls, its
\* daily_count is the number of its calls that returned True, and so is its
\* hourly_count within the first hour; an actor without a row has none.
C24_NoLostUpdates ==
    \A a \in Actors :
        tz = 0
        => IF HasRow(a)
           THEN /\ rate_limits[a].daily_count = granted[a]
                /\ clock <= HourLen => rate_limits[a].hourly_count = granted[a]
           ELSE granted[a] = 0

\* Calls of one actor that were in progress together have all returned True
\* within the first hour, more of them than the hourly limit.
C24_Witness ==
    \E a \in Actors :
        /\ tz = 0
        /\ clock <= HourLen
        /\ overlap[a]
        /\ NoCallInProgress(a)
        /\ granted[a] = MAX_REQUESTS_PER_HOUR + 1
        /\ rate_limits[a].hourly_count = granted[a]

\* C25: the window starts only move forward.  No step moves an actor's
\* last_hour_reset or last_day_reset backwards; a commit of update_rate_limit
\* leaves each as it was or sets it to the call's `now`, and that only when
\* `now` is more than the window's length after it.
C25_StartsMonotonic ==
    [][/\ \A a \in DOMAIN rate_limits :
             a \in DOMAIN rate_limits'
             => /\ rate_limits'[a].last_hour_reset >= rate_limits[a].last_hour_reset
                /\ rate_limits'[a].last_day_reset >= rate_limits[a].last_day_reset
       /\ \A t \in Threads :
             (CommitStep(t) /\ HasRow(actor[t]))
             => LET old == rate_limits[actor[t]]
                    new == rate_limits'[actor[t]]
                IN /\ \/ new.last_hour_reset = old.last_hour_reset
                      \/ /\ new.last_hour_reset = now_[t]
                         /\ now_[t] - old.last_hour_reset > HourLen
                   /\ \/ new.last_day_reset = old.last_day_reset
                      \/ /\ new.last_day_reset = now_[t]
                         /\ now_[t] - old.last_day_reset > DayLen
      ]_vars

\* An actor whose calls overlapped has had its hour window restarted by one
\* call and kept by the next.
C25_Witness ==
    \E a \in Actors :
        /\ HasRow(a)
        /\ overlap[a]
        /\ NoCallInProgress(a)
        /\ granted[a] >= 3
        /\ rate_limits[a].hourly_count = 2
        /\ rate_limits[a].last_hour_reset > rate_limits[a].last_day_reset

\* The step in which the SELECT of the handler of thread l raises.
FetchFails(l) == handler[l] = "fetch" /\ errors' = errors + 1

\* C26: when the due-job fetch of auto_post_news fails, the invocation
\* dispatches nothing and changes no job, the handler returns normally to
\* its tick loop, and the fetch is not made again until the trigger's next
\* firing: the job is no longer due, and no firing has its handler run twice.
C26_FetchFailureSkips ==
    [][/\ \A l \in Loops :
             FetchFails(l)
             => /\ scheduled_posts' = scheduled_posts
                /\ batch' = batch
                /\ sent' = sent /\ failed' = failed /\ nextMsg' = nextMsg
                /\ handler'[l] = "none"
                /\ loop'[l] = "wait"
                /\ ~due'
       /\ runs' <= 1
      ]_vars

\* The fetch of the first firing has failed with a pending job due: nothing
\* was dispatched, the job is as it was, and the tick loop is waiting.
C26_Witness ==
    /\ errors = 1
    /\ firings = 1
    /\ kind = "auto_post"
    /\ runs = 1
    /\ handler[1] = "none"
    /\ loop[1] = "wait"
    /\ DueIds # {}
    /\ sent = {}
    /\ failed = {}

\* A batch without a repeated id
NoRepeat(b) == \A i, j \in 1 .. Len(b) : i # j => b[i] # b[j]

\* A step of the handler of thread l at a dispatch.
DispatchAttempt(l) ==
    handler[l] = "post" /\ (handler'[l] # "post" \/ batch'[l] # batch[l])

\* C27: within one auto_post_news invocation the fetched jobs are dispatched
\* one at a time in ascending scheduled_time order, each at most once, and the
\* sleep comes between any two dispatch attempts: a dispatch is of the head
\* of the batch and leaves the batch as it is, whether it succeeds or fails;
\* the next dispatch is reached only from the sleep, which drops the head;
\* and the batch is fetched in ascending order without a repeated job.
C27_OneAtATime ==
    [][\A l \in Loops :
          /\ DispatchAttempt(l)
               => /\ handler'[l] \in {"mark", "sleep"}
                  /\ batch'[l] = batch[l]
          /\ (handler[l] = "mark" /\ handler'[l] # "mark")
               => /\ handler'[l] = "sleep"
                  /\ batch'[l] = batch[l]
          /\ (handler[l] # "post" /\ handler'[l] = "post")
               => \/ /\ handler[l] = "fetch"
                     /\ Ascending(batch'[l])
                     /\ NoRepeat(batch'[l])
                  \/ /\ handler[l] = "sleep"
                     /\ batch'[l] = Tail(batch[l])
      ]_vars

\* In the handler of the first firing the dispatch of the first fetched job
\* has failed, the sleep is over, and the second job is about to be dispatched.
C27_Witness ==
    \E l \in Loops, id \in failed :
        /\ firings = 1
        /\ handler[l] = "post"
        /\ Len(batch[l]) = 1
        /\ id # Head(batch[l])
        /\ IsDue(scheduled_posts[id])
        /\ scheduled_posts[id].scheduled_time
              <= scheduled_posts[Head(batch[l])].scheduled_time

\* The tick-loop threads that are inside `while self.running`.
LiveLoops == {l \in Loops : loop[l] \in {"while", "run_pending", "wait"}}

\* C28: after any sequence of start() and stop() calls at most one tick-loop
\* thread is evaluating triggers, and while the scheduler is running its
\* trigger is registered (once: `registered` is a flag); no two threads run
\* the handler of one registered job together.
C28_SingleLoop ==
    /\ Cardinality(LiveLoops) <= 1
    /\ running => registered
    /\ \A l1, l2 \in Loops :
          (l1 # l2 /\ handler[l1] # "none" /\ handler[l2] # "none")
          => firedGen[l1] # firedGen[l2]

\* C30: in every reachable state a job is 'posted' only if a dispatch of it
\* returned success, and then its message_id and posted_at are not null; a
\* 'pending' or 'cancelled' job has null message_id and posted_at.
C30_PostedMeansSent ==
    \A id \in Ids :
        IF scheduled_posts[id].status = "posted"
        THEN /\ id \in sent
             /\ scheduled_posts[id].message_id # NULL
             /\ scheduled_posts[id].posted_at # NULL
        ELSE /\ scheduled_posts[id].status \in {"pending", "cancelled"}
             /\ scheduled_posts[id].message_id = NULL
             /\ scheduled_posts[id].posted_at = NULL

\* One job is posted after a successful dispatch, one is cancelled, and one,
\* a dispatch of which failed, is pending.
C30_Witness ==
    \E i, j, k \in Ids :
        /\ scheduled_posts[i].status = "posted" /\ i \in sent
        /\ scheduled_posts[j].status = "cancelled" /\ j \in cancelRet
        /\ scheduled_posts[k].status = "pending" /\ k \in failed

\* Job id is pending and due, and post_to_channel accepts its content.
Dispatchable(id) ==
    /\ id \in Ids
    /\ IsDue(scheduled_posts[id])
    /\ _validate_content(scheduled_posts[id].content)

\* C29: no starvation.  While the auto-post trigger keeps firing, every due
\* 'pending' job whose dispatch would succeed is eventually 'posted', however
\* many earlier-scheduled jobs fail at every attempt.
C29_NoStarvation ==
    \A id \in 1 .. MaxJobs :
        Dispatchable(id) ~> (id \in Ids /\ scheduled_posts[id].status = "posted")

====
